---------------------------- MODULE Spec2Model ----------------------------
(***************************************************************************)
(* Model of weight.py: the daily sync of Garmin body-weight records into a *)
(* Notion database.                                                        *)
(*                                                                         *)
(* Units.  A weight is an integer number of grams.  A "Weight (kg)" number *)
(* is held in hundredths of a kilogram (72.3 kg is 7230), a "Weight (lbs)" *)
(* number in tenths of a pound (159.4 lbs is 1594).  A bmi / bodyFat input *)
(* is held in hundredths (22.14 is 2214), a written "BMI" / "Body Fat (%)" *)
(* number in tenths (22.1 is 221).                                         *)
(*                                                                         *)
(* Optional values.  Python's None is the empty sequence, a present value  *)
(* v is the one-element sequence <<v>>.                                    *)
(***************************************************************************)
EXTENDS Integers, Sequences, FiniteSets

VARIABLES
    store,      \* the Notion database: the sequence of its rows (pages)
    garmin,     \* Garmin's dateWeightList: Some(list) when every fetch returns
                \* the same list, None when each fetch may return another one
    pc,         \* pc[p]: where process p stands in main()
    run,        \* run[p]: the runs in which p fetched the list held in garmin,
                \* counted up to MaxRuns
    dbid,       \* dbid[p]: NOTION_WEIGHT_DB_ID as the current run read it
    total,      \* total[p]: len(weight_entries) of the current run
    idx,        \* idx[p]: the position of the for loop in weight_entries
    entry,      \* entry[p]: the loop variable, None before the first entry
    existing,   \* existing[p]: what weight_entry_exists returned for entry
    log,        \* log[p]: the Notion calls issued for entry, in order
    provider    \* provider[p]: the Garmin calls the current run has issued

vars == <<store, garmin, pc, run, dbid, total, idx, entry, existing, log, provider>>

-----------------------------------------------------------------------------
(* Bounds of the model *)

\* The longest dateWeightList Garmin returns.
MaxLen == 2

\* The count at which run stops counting; runs themselves are not limited.
MaxRuns == 2

\* The width of the two ranges of weights of ConvWeights, in grams.
MaxGrams == 26

Procs == {1, 2}

-----------------------------------------------------------------------------
(* Values *)

None == <<>>

Some(v) == <<v>>

Val(o) == o[1]

\* Python truth of an optional number: None and 0 are false.
TruthyNum(o) == o # None /\ Val(o) # 0

\* Python truth of an optional string: None and "" are false.
TruthyStr(o) == o # None /\ Val(o) # ""

Dates == {"2024-06-01", "2024-06-02"}

\* What entry.get('calendarDate') can give: missing, empty, or a date.
CalendarDates == {None, Some("")} \cup {Some(d) : d \in Dates}

\* What entry.get('weight') can give, in grams: missing, zero, or a weight.
Weights == {None, Some(0), Some(70500), Some(72300)}

\* What entry.get('bmi') and entry.get('bodyFat') can give, in hundredths.
Bmis == {None, Some(2215)}

BodyFats == {None, Some(1835)}

\* The records of a dateWeightList.
Records ==
    [calendarDate : CalendarDates, weight : Weights, bmi : Bmis, bodyFat : BodyFats]

RECURSIVE SeqsUpTo(_, _)
SeqsUpTo(S, n) ==
    IF n = 0 THEN {<<>>}
    ELSE LET shorter == SeqsUpTo(S, n - 1)
         IN  shorter \cup {Append(s, x) : s \in {t \in shorter : Len(t) = n - 1}, x \in S}

FetchedLists == SeqsUpTo(Records, MaxLen)

\* os.getenv("NOTION_WEIGHT_DB_ID"): unset, empty, or set.
DatabaseIds == {None, Some(""), Some("db")}

-----------------------------------------------------------------------------
(* Conversions *)

\* The gram values g ending in 5, of 0..99 and 70400..70599, for which Python's
\* round(g / 1000, 2) gives the upper neighbour: the double nearest to g/1000
\* lies above the midpoint.  For the other values ending in 5 it lies below.
HalfUp2 ==
    {5, 25, 35, 55, 65, 85, 95, 70405, 70415, 70435, 70465, 70495, 70515,
     70525, 70545, 70555, 70575}

\* round(weight_g / 1000, 2), in hundredths of a kilogram.
Round2(g) ==
    IF g % 10 > 5 \/ (g % 10 = 5 /\ g \in HalfUp2) THEN g \div 10 + 1 ELSE g \div 10

\* The inputs h (hundredths) ending in 5 for which round(h / 100, 1) gives the
\* upper neighbour, among the values of Bmis and BodyFats.
HalfUp1 == {1835}

\* round(bmi, 1) and round(body_fat, 1), in tenths.
Round1(h) ==
    IF h % 10 > 5 \/ (h % 10 = 5 /\ h \in HalfUp1) THEN h \div 10 + 1 ELSE h \div 10

\* A mutant of kg_to_lbs: the factor 2.2 in place of 2.20462.
kg_to_lbs_factor(kg) ==
    IF kg = None THEN None ELSE Some((Val(kg) * 220000 + 500000) \div 1000000)

\* kg * 2.20462 rounded to one decimal: kg in hundredths, the result in tenths.
\* No product kg * 2.20462 below 2500 kg lies on a midpoint.
kg_to_lbs(kg) ==
    IF kg = None THEN None ELSE Some((Val(kg) * 220462 + 500000) \div 1000000)

\* weight_kg as create_weight_entry and update_weight_entry compute it.
weight_kg(e) ==
    IF TruthyNum(e.weight) THEN Some(Round2(Val(e.weight))) ELSE None

\* new_weight_kg as weight_needs_update computes it: a weight that is not
\* true (None, 0) is left as it is.
new_weight_kg(new_data) ==
    IF TruthyNum(new_data.weight) THEN Some(Round2(Val(new_data.weight)))
    ELSE new_data.weight

weight_needs_update(existing_entry, new_data) ==
    existing_entry.weight_kg # new_weight_kg(new_data)

\* An optional key of the properties: None when v is None and the key is not
\* set, else Some(number), the number being {"number": round(v, 1)}.
Optional(v) == IF v # None THEN Some(Some(Round1(Val(v)))) ELSE None

\* The properties create_weight_entry sends.
create_properties(e) ==
    [Date       |-> IF TruthyStr(e.calendarDate) THEN Val(e.calendarDate)
                    ELSE "Unknown",
     weight_kg  |-> weight_kg(e),
     weight_lbs |-> kg_to_lbs(weight_kg(e)),
     BMI        |-> Optional(e.bmi),
     Body_Fat   |-> Optional(e.bodyFat)]

\* A mutant of update_properties: BMI is always sent, empty for an absent bmi.
update_properties_clear(e) ==
    [weight_kg  |-> weight_kg(e),
     weight_lbs |-> kg_to_lbs(weight_kg(e)),
     BMI        |-> IF e.bmi # None THEN Optional(e.bmi) ELSE Some(None),
     Body_Fat   |-> Optional(e.bodyFat)]

\* The properties update_weight_entry sends.
update_properties(e) ==
    [weight_kg  |-> weight_kg(e),
     weight_lbs |-> kg_to_lbs(weight_kg(e)),
     BMI        |-> Optional(e.bmi),
     Body_Fat   |-> Optional(e.bodyFat)]

-----------------------------------------------------------------------------
(* The Notion database *)

\* client.pages.create: a new page with a fresh id, which Notion stamps with
\* its creator; a number property that was not sent is empty.
PagesCreate(s, properties, by) ==
    Append(s, [id         |-> Len(s) + 1,
               created_by |-> by,
               Date       |-> properties.Date,
               weight_kg  |-> properties.weight_kg,
               weight_lbs |-> properties.weight_lbs,
               bmi        |-> IF properties.BMI = None THEN None
                              ELSE Val(properties.BMI),
               body_fat   |-> IF properties.Body_Fat = None THEN None
                              ELSE Val(properties.Body_Fat)])

\* client.pages.update: the sent properties of page page_id are replaced.
PagesUpdate(s, page_id, properties) ==
    [s EXCEPT ![page_id] =
        [@ EXCEPT !.weight_kg  = properties.weight_kg,
                  !.weight_lbs = properties.weight_lbs,
                  !.bmi        = IF properties.BMI = None THEN @
                                 ELSE Val(properties.BMI),
                  !.body_fat   = IF properties.Body_Fat = None THEN @
                                 ELSE Val(properties.Body_Fat)]]

\* client.databases.query with the filter Date equals entry_date.
DatabasesQuery(s, entry_date) == {i \in 1..Len(s) : s[i].Date = entry_date}

\* A mutant of weight_entry_exists: the result list is taken to be empty.
weight_entry_exists_never(s, entry_date) == {None}

\* What weight_entry_exists can return: None when the query has no result,
\* else results[0].  Notion fixes no order for an unsorted query, so any of
\* the matching rows can come first.
weight_entry_exists(s, entry_date) ==
    IF DatabasesQuery(s, entry_date) = {} THEN {None}
    ELSE {Some(s[i]) : i \in DatabasesQuery(s, entry_date)}

-----------------------------------------------------------------------------
(* main() *)

\* A database as earlier runs leave it: empty, or holding the row of one day.
InitStores ==
    { <<>>,
      <<[id |-> 1, created_by |-> 0, Date |-> "2024-06-01",
         weight_kg |-> Some(7040), weight_lbs |-> Some(1552),
         bmi |-> None, body_fat |-> None]>> }

Idle ==
    /\ pc = [p \in Procs |-> "idle"]
    /\ run = [p \in Procs |-> 0]
    /\ dbid = [p \in Procs |-> None]
    /\ total = [p \in Procs |-> 0]
    /\ idx = [p \in Procs |-> 1]
    /\ entry = [p \in Procs |-> None]
    /\ existing = [p \in Procs |-> None]
    /\ log = [p \in Procs |-> <<>>]
    /\ provider = [p \in Procs |-> 0]

\* get_weight_data: the lengths the fetched list can have.  The elements of a
\* list that is not held in garmin are drawn when the loop reads them.
FetchedLengths == IF garmin = None THEN 0..MaxLen ELSE {Len(Val(garmin))}

\* The values weight_entries[idx[p]] can have.
FetchedEntry(p) == IF garmin = None THEN Records ELSE {Val(garmin)[idx[p]]}

\* The loop moves to the next entry, and main returns after the last one.
Advance(p) ==
    /\ idx' = [idx EXCEPT ![p] = @ + 1]
    /\ pc' = [pc EXCEPT ![p] = IF idx[p] + 1 > total[p] THEN "done" ELSE "loop"]

\* A mutant of MainStart: Garmin is logged into and read before the database
\* id is looked at.
MainStartFetchFirst(p, database_id, len) ==
    /\ pc[p] \in {"idle", "done", "failed"}
    /\ run' = [run EXCEPT ![p] = IF garmin # None /\ TruthyStr(database_id) /\ @ < MaxRuns
                                  THEN @ + 1 ELSE @]
    /\ dbid' = [dbid EXCEPT ![p] = database_id]
    /\ log' = [log EXCEPT ![p] = <<>>]
    /\ entry' = [entry EXCEPT ![p] = None]
    /\ existing' = [existing EXCEPT ![p] = None]
    /\ idx' = [idx EXCEPT ![p] = 1]
    /\ provider' = [provider EXCEPT ![p] = 2]
    /\ total' = [total EXCEPT ![p] = IF TruthyStr(database_id) THEN len ELSE 0]
    /\ pc' = [pc EXCEPT ![p] = IF TruthyStr(database_id) /\ len # 0
                                THEN "loop" ELSE "done"]
    /\ UNCHANGED <<store, garmin>>

\* main up to the for loop: the script is started, reads the database id
\* and returns when it is not set; else it logs into Garmin, fetches a list
\* of len entries and returns when the list is empty.
MainStart(p, database_id, len) ==
    /\ pc[p] \in {"idle", "done", "failed"}
    /\ run' = [run EXCEPT ![p] = IF garmin # None /\ TruthyStr(database_id) /\ @ < MaxRuns
                                  THEN @ + 1 ELSE @]
    /\ dbid' = [dbid EXCEPT ![p] = database_id]
    /\ log' = [log EXCEPT ![p] = <<>>]
    /\ entry' = [entry EXCEPT ![p] = None]
    /\ existing' = [existing EXCEPT ![p] = None]
    /\ idx' = [idx EXCEPT ![p] = 1]
    /\ IF ~TruthyStr(database_id)
       THEN /\ provider' = [provider EXCEPT ![p] = 0]
            /\ total' = [total EXCEPT ![p] = 0]
            /\ pc' = [pc EXCEPT ![p] = "done"]
       ELSE /\ provider' = [provider EXCEPT ![p] = 2]
            /\ total' = [total EXCEPT ![p] = len]
            /\ pc' = [pc EXCEPT ![p] = IF len = 0 THEN "done" ELSE "loop"]
    /\ UNCHANGED <<store, garmin>>

\* The script is run.
Main(p) ==
    \E database_id \in DatabaseIds, len \in FetchedLengths :
        MainStart(p, database_id, len)

\* A mutant of Skip: break in place of continue.
SkipBreak(p) ==
    /\ pc[p] = "loop"
    /\ \E e \in FetchedEntry(p) :
          /\ ~TruthyStr(e.calendarDate)
          /\ entry' = [entry EXCEPT ![p] = Some(e)]
    /\ log' = [log EXCEPT ![p] = <<>>]
    /\ existing' = [existing EXCEPT ![p] = None]
    /\ idx' = [idx EXCEPT ![p] = @ + 1]
    /\ pc' = [pc EXCEPT ![p] = "done"]
    /\ UNCHANGED <<store, garmin, run, dbid, total, provider>>

\* The next entry has no calendarDate: continue.
Skip(p) ==
    /\ pc[p] = "loop"
    /\ \E e \in FetchedEntry(p) :
          /\ ~TruthyStr(e.calendarDate)
          /\ entry' = [entry EXCEPT ![p] = Some(e)]
    /\ log' = [log EXCEPT ![p] = <<>>]
    /\ existing' = [existing EXCEPT ![p] = None]
    /\ Advance(p)
    /\ UNCHANGED <<store, garmin, run, dbid, total, provider>>

\* The next entry has a calendarDate:
\* existing = weight_entry_exists(client, database_id, entry_date)
Query(p) ==
    /\ pc[p] = "loop"
    /\ \E e \in FetchedEntry(p) :
          /\ TruthyStr(e.calendarDate)
          /\ entry' = [entry EXCEPT ![p] = Some(e)]
          /\ \E result \in weight_entry_exists(store, Val(e.calendarDate)) :
                /\ existing' = [existing EXCEPT ![p] = result]
                /\ log' = [log EXCEPT ![p] =
                              <<[op |-> "query", ok |-> TRUE,
                                 date |-> Val(e.calendarDate), result |-> result]>>]
    /\ pc' = [pc EXCEPT ![p] = "matched"]
    /\ UNCHANGED <<store, garmin, run, dbid, total, idx, provider>>

\* The call update_weight_entry makes.
UpdateCall(p) ==
    [op |-> "update", ok |-> TRUE, page_id |-> Val(existing[p]).id,
     properties |-> update_properties(Val(entry[p]))]

\* The call create_weight_entry makes.
CreateCall(p) ==
    [op |-> "create", ok |-> TRUE, properties |-> create_properties(Val(entry[p]))]

\* A mutant of Update: the row is written whether or not the weight differs.
UpdateAlways(p) ==
    /\ pc[p] = "matched"
    /\ existing[p] # None
    /\ store' = PagesUpdate(store, UpdateCall(p).page_id, UpdateCall(p).properties)
    /\ log' = [log EXCEPT ![p] = Append(@, UpdateCall(p))]
    /\ Advance(p)
    /\ UNCHANGED <<garmin, run, dbid, total, entry, existing, provider>>

\* A row exists and its weight differs: update_weight_entry.
Update(p) ==
    /\ pc[p] = "matched"
    /\ existing[p] # None
    /\ weight_needs_update(Val(existing[p]), Val(entry[p]))
    /\ store' = PagesUpdate(store, UpdateCall(p).page_id, UpdateCall(p).properties)
    /\ log' = [log EXCEPT ![p] = Append(@, UpdateCall(p))]
    /\ Advance(p)
    /\ UNCHANGED <<garmin, run, dbid, total, entry, existing, provider>>

\* A row exists and its weight is the same: "already up to date".
UpToDate(p) ==
    /\ pc[p] = "matched"
    /\ existing[p] # None
    /\ ~weight_needs_update(Val(existing[p]), Val(entry[p]))
    /\ Advance(p)
    /\ UNCHANGED <<store, garmin, run, dbid, total, entry, existing, log, provider>>

\* A mutant of Create: the row is created whatever the query returned.
CreateAlways(p) ==
    /\ pc[p] = "matched"
    /\ store' = PagesCreate(store, CreateCall(p).properties, p)
    /\ log' = [log EXCEPT ![p] = Append(@, CreateCall(p))]
    /\ Advance(p)
    /\ UNCHANGED <<garmin, run, dbid, total, entry, existing, provider>>

\* No row exists: create_weight_entry.
Create(p) ==
    /\ pc[p] = "matched"
    /\ existing[p] = None
    /\ store' = PagesCreate(store, CreateCall(p).properties, p)
    /\ log' = [log EXCEPT ![p] = Append(@, CreateCall(p))]
    /\ Advance(p)
    /\ UNCHANGED <<garmin, run, dbid, total, entry, existing, provider>>

\* One step of the for loop of process p.
Loop(p) == Skip(p) \/ Query(p) \/ Update(p) \/ UpToDate(p) \/ Create(p)

\* A mutant of QueryFails: the exception is swallowed and the loop goes on.
QueryFailsContinue(p) ==
    /\ pc[p] = "loop"
    /\ \E e \in FetchedEntry(p) :
          /\ TruthyStr(e.calendarDate)
          /\ entry' = [entry EXCEPT ![p] = Some(e)]
          /\ log' = [log EXCEPT ![p] =
                        <<[op |-> "query", ok |-> FALSE,
                           date |-> Val(e.calendarDate), result |-> None]>>]
    /\ existing' = [existing EXCEPT ![p] = None]
    /\ Advance(p)
    /\ UNCHANGED <<store, garmin, run, dbid, total, provider>>

\* client.databases.query raises: nothing in main catches the exception, and
\* the process ends with it.
QueryFails(p) ==
    /\ pc[p] = "loop"
    /\ \E e \in FetchedEntry(p) :
          /\ TruthyStr(e.calendarDate)
          /\ entry' = [entry EXCEPT ![p] = Some(e)]
          /\ log' = [log EXCEPT ![p] =
                        <<[op |-> "query", ok |-> FALSE,
                           date |-> Val(e.calendarDate), result |-> None]>>]
    /\ existing' = [existing EXCEPT ![p] = None]
    /\ pc' = [pc EXCEPT ![p] = "failed"]
    /\ UNCHANGED <<store, garmin, run, dbid, total, idx, provider>>

\* client.pages.create or client.pages.update raises: the page is not written
\* and the process ends with the exception.
WriteFails(p) ==
    /\ pc[p] = "matched"
    /\ \/ /\ existing[p] = None
          /\ log' = [log EXCEPT ![p] = Append(@, [CreateCall(p) EXCEPT !.ok = FALSE])]
       \/ /\ existing[p] # None
          /\ weight_needs_update(Val(existing[p]), Val(entry[p]))
          /\ log' = [log EXCEPT ![p] = Append(@, [UpdateCall(p) EXCEPT !.ok = FALSE])]
    /\ pc' = [pc EXCEPT ![p] = "failed"]
    /\ UNCHANGED <<store, garmin, run, dbid, total, idx, entry, existing, provider>>

-----------------------------------------------------------------------------
(* Specifications *)

\* Runs of the script one after the other.
Next == Main(1) \/ Loop(1)

\* Each run fetches whatever list Garmin holds that day.
Init ==
    /\ store \in InitStores
    /\ garmin = None
    /\ Idle

Spec == Init /\ [][Next]_vars

\* Runs one after the other in which a Notion call can fail.
NextFail == Next \/ QueryFails(1) \/ WriteFails(1)

SpecFail == Init /\ [][NextFail]_vars

\* Every run fetches the same list, and the database starts without a row.
InitIdem ==
    /\ store = <<>>
    /\ garmin \in {Some(list) : list \in FetchedLists}
    /\ Idle

SpecIdem == InitIdem /\ [][Next]_vars

\* The weights the conversions are checked on, in grams.
ConvWeights ==
    {None} \cup {Some(g) : g \in 0..MaxGrams} \cup {Some(70490 + g) : g \in 0..MaxGrams}

\* Every run fetches the same single record.
InitConv ==
    /\ store \in InitStores
    /\ garmin \in {Some(<<e>>) : e \in [calendarDate : CalendarDates, weight : ConvWeights,
                                        bmi : Bmis, bodyFat : BodyFats]}
    /\ Idle

SpecConv == InitConv /\ [][Next]_vars

\* Two processes run the script at the same time on the same single record.
NextConc == \E p \in Procs : Main(p) \/ Loop(p)

InitConc ==
    /\ store \in InitStores
    /\ garmin \in {Some(<<e>>) : e \in Records}
    /\ Idle

SpecConc == InitConc /\ [][NextConc]_vars

-----------------------------------------------------------------------------
(* Claims *)

IsWrite(call) == call.op \in {"create", "update"}

\* The positions of the writes among the calls issued for the entry of p.
Writes(p) == {k \in 1..Len(log[p]) : IsWrite(log[p][k])}

\* The rows of date d.
RowsOf(d) == {i \in 1..Len(store) : store[i].Date = d}

\* C1, as claimed: when every run fetches the same list and the database had
\* no row at first, the first run leaves exactly one row for each date of the
\* list, every create being the only write of its entry's date lookup, and the
\* second and every later run issues no create and no update.
C1_Idempotent ==
    \A p \in Procs :
        /\ run[p] >= 2 => Writes(p) = {}
        /\ run[p] = 1 /\ pc[p] = "done" /\ TruthyStr(dbid[p]) =>
              \A k \in 1..Len(Val(garmin)) :
                  TruthyStr(Val(garmin)[k].calendarDate) =>
                      Cardinality(RowsOf(Val(Val(garmin)[k].calendarDate))) = 1

\* C2: the entry with a calendarDate that process p has handled caused exactly
\* one query, for its date, and then: exactly one create and no update iff the
\* query returned no row; exactly one update, of the id of the returned row,
\* and no create iff a row was returned and weight_needs_update is true; no
\* write iff a row was returned and weight_needs_update is false.
C2_Outcome ==
    \A p \in Procs :
        (entry[p] # None /\ TruthyStr(Val(entry[p]).calendarDate)) =>
            /\ Len(log[p]) \in {1, 2}
            /\ log[p][1].op = "query"
            /\ log[p][1].date = Val(Val(entry[p]).calendarDate)
            /\ pc[p] \in {"matched", "loop", "done"}
            /\ pc[p] = "matched" => Len(log[p]) = 1
            /\ pc[p] \in {"loop", "done"} =>
                  LET result == log[p][1].result
                      needs  == weight_needs_update(Val(result), Val(entry[p]))
                  IN  /\ result = None <=>
                            (Len(log[p]) = 2 /\ log[p][2].op = "create")
                      /\ (result # None /\ needs) <=>
                            (Len(log[p]) = 2 /\ log[p][2].op = "update")
                      /\ (result # None /\ ~needs) <=> Len(log[p]) = 1
                      /\ (Len(log[p]) = 2 /\ log[p][2].op = "update") =>
                            log[p][2].page_id = Val(result).id

\* C2's case: an entry whose query returned a row has been handled by one
\* update of that row.
C2_Witness ==
    /\ pc[1] \in {"loop", "done"}
    /\ entry[1] # None
    /\ Len(log[1]) = 2
    /\ log[1][1].result # None
    /\ log[1][2].op = "update"

\* C3, as claimed: at the decision, weight_needs_update is true iff the
\* stored "Weight (kg)" differs from the kg value that create_weight_entry and
\* update_weight_entry write for the entry.
C3_NeedsUpdateIffWrittenDiffers ==
    \A p \in Procs :
        (pc[p] = "matched" /\ existing[p] # None) =>
            (weight_needs_update(Val(existing[p]), Val(entry[p]))
                <=> Val(existing[p]).weight_kg # update_properties(Val(entry[p])).weight_kg)

\* C4: in runs one after the other the database holds at most one row for a
\* date, and a create is the call that follows a query, for the same date,
\* that returned no row.
C4_OneRowPerDate ==
    /\ \A i, j \in 1..Len(store) : store[i].Date = store[j].Date => i = j
    /\ \A p \in Procs : \A k \in 1..Len(log[p]) :
          log[p][k].op = "create" =>
              /\ k = 2
              /\ log[p][1].op = "query"
              /\ log[p][1].result = None
              /\ log[p][1].date = log[p][2].properties.Date

\* C4's case: after a create for each of two dates, a further entry of a date
\* that has its row is handled without a create.
C4_Witness ==
    /\ Len(store) = 2
    /\ store[1].Date # store[2].Date
    /\ store[1].created_by = 1
    /\ store[2].created_by = 1
    /\ idx[1] = 3
    /\ Len(log[1]) >= 1
    /\ log[1][1].result # None

\* What process p holds.
Local(p) ==
    <<pc[p], run[p], dbid[p], total[p], idx[p], entry[p], existing[p], log[p], provider[p]>>

\* The distance of a from b.
Dist(a, b) == IF a >= b THEN a - b ELSE b - a

\* C5: the "Weight (kg)" and "Weight (lbs)" sent by a create or an update of
\* an entry: both empty for a missing weight; for a weight of g > 0 grams the
\* kg number is g/1000 to the nearest hundredth and the lbs number is that kg
\* number times 2.20462 to the nearest tenth; and create_weight_entry and
\* update_weight_entry compute the same two numbers for the entry.
C5_Conversion ==
    \A p \in Procs :
        /\ \A k \in Writes(p) :
              LET weight == Val(entry[p]).weight
                  kg     == log[p][k].properties.weight_kg
                  lbs    == log[p][k].properties.weight_lbs
              IN  /\ weight = None => (kg = None /\ lbs = None)
                  /\ (weight # None /\ Val(weight) > 0) =>
                        /\ kg # None
                        /\ lbs # None
                        /\ Dist(10 * Val(kg), Val(weight)) <= 5
                        /\ Dist(1000000 * Val(lbs), 220462 * Val(kg)) <= 500000
        /\ entry[p] # None =>
              /\ create_properties(Val(entry[p])).weight_kg
                    = update_properties(Val(entry[p])).weight_kg
              /\ create_properties(Val(entry[p])).weight_lbs
                    = update_properties(Val(entry[p])).weight_lbs

\* C5's case: an update has sent 70.5 kg and 155.4 lbs for 70500 grams.
C5_Witness ==
    /\ entry[1] # None
    /\ Val(entry[1]).weight = Some(70500)
    /\ Len(log[1]) = 2
    /\ log[1][2].op = "update"
    /\ log[1][2].properties.weight_kg = Some(7050)
    /\ log[1][2].properties.weight_lbs = Some(1554)

\* C6: a step of the loop that takes an entry without a calendarDate issues no
\* Notion call, changes no row, raises nothing and moves to the next entry,
\* and a run that got a list returns only after the loop has taken every entry.
C6_SkipContinues ==
    [][\A p \in Procs :
          /\ ( /\ pc[p] = "loop"
               /\ idx'[p] # idx[p] \/ pc'[p] # pc[p]
               /\ ~TruthyStr(Val(entry'[p]).calendarDate) ) =>
                  /\ log'[p] = <<>>
                  /\ store' = store
                  /\ idx'[p] = idx[p] + 1
                  /\ pc'[p] = IF idx'[p] <= total[p] THEN "loop" ELSE "done"
          /\ (pc'[p] = "done" /\ TruthyStr(dbid'[p])) => idx'[p] = total'[p] + 1
      ]_vars

\* C6's case: the first of two entries was skipped and the loop is at the
\* second.
C6_Witness ==
    /\ pc[1] = "loop"
    /\ total[1] = 2
    /\ idx[1] = 2
    /\ entry[1] # None
    /\ ~TruthyStr(Val(entry[1]).calendarDate)
    /\ log[1] = <<>>

\* C7: a run that finds no database id returns without a Garmin call, and a
\* run that has one and fetches an empty list returns; neither issues a
\* Notion call and neither changes the database.
C7_EarlyExit ==
    [][\A p \in Procs :
          ( /\ pc[p] \in {"idle", "done", "failed"}
            /\ Local(p)' # Local(p) ) =>
              /\ ~TruthyStr(dbid'[p]) =>
                    /\ pc'[p] = "done"
                    /\ provider'[p] = 0
                    /\ log'[p] = <<>>
                    /\ entry'[p] = None
                    /\ store' = store
              /\ (TruthyStr(dbid'[p]) /\ total'[p] = 0) =>
                    /\ pc'[p] = "done"
                    /\ log'[p] = <<>>
                    /\ entry'[p] = None
                    /\ store' = store
      ]_vars

\* C7's case: with rows in the database, a run has a database id, fetched an
\* empty list from Garmin and returned.
C7_Witness ==
    /\ pc[1] = "done"
    /\ TruthyStr(dbid[1])
    /\ total[1] = 0
    /\ provider[1] = 2
    /\ log[1] = <<>>
    /\ Len(store) = 2

\* C8: a step adds at most one row and removes none; it leaves the id and the
\* Date of every row as they are; a step that adds a row changes no other row;
\* a step that changes a row is the update of the row a process addresses,
\* changes no other row, and leaves the BMI and the Body Fat of that row as
\* they are when the entry has no bmi, no bodyFat.
C8_Frame ==
    [][/\ Len(store') \in {Len(store), Len(store) + 1}
       /\ \A i \in 1..Len(store) :
             /\ store'[i].id = store[i].id
             /\ store'[i].Date = store[i].Date
       /\ Len(store') = Len(store) + 1 =>
             \A i \in 1..Len(store) : store'[i] = store[i]
       /\ (Len(store') = Len(store) /\ store' # store) =>
             \E p \in Procs :
                 /\ pc[p] = "matched"
                 /\ existing[p] # None
                 /\ \A i \in 1..Len(store) :
                       i # Val(existing[p]).id => store'[i] = store[i]
                 /\ Val(entry[p]).bmi = None =>
                       store'[Val(existing[p]).id].bmi = store[Val(existing[p]).id].bmi
                 /\ Val(entry[p]).bodyFat = None =>
                       store'[Val(existing[p]).id].body_fat
                           = store[Val(existing[p]).id].body_fat
      ]_vars

\* C8's case: beside another row, a row that holds a BMI and a Body Fat has
\* been updated from an entry that has neither.
C8_Witness ==
    /\ Len(store) = 2
    /\ entry[1] # None
    /\ Val(entry[1]).bmi = None
    /\ Val(entry[1]).bodyFat = None
    /\ Len(log[1]) = 2
    /\ log[1][2].op = "update"
    /\ store[log[1][2].page_id].bmi # None
    /\ store[log[1][2].page_id].body_fat # None
    /\ store[log[1][2].page_id].weight_kg = log[1][2].properties.weight_kg

\* C9: with two processes running the script, rows of the same date were
\* never created by the same process: one process alone keeps to one row per
\* date, and nothing more than that holds (C9_Witness).
C9_DuplicatesAcrossRuns ==
    \A i, j \in 1..Len(store) :
        (i # j /\ store[i].Date = store[j].Date) =>
            store[i].created_by # store[j].created_by

\* C9's case: both processes queried for the date of the same record before
\* either wrote, both got no row, both created, and the database holds two
\* rows of that date.
C9_Witness ==
    /\ entry[1] # None
    /\ entry[1] = entry[2]
    /\ \A p \in Procs :
          /\ Len(log[p]) = 2
          /\ log[p][1].op = "query"
          /\ log[p][1].result = None
          /\ log[p][2].op = "create"
    /\ Len(store) = 2
    /\ store[1].Date = store[2].Date
    /\ store[1].created_by # store[2].created_by

\* C10: a Notion call that fails is the last call of its run, and the run has
\* failed; the step on which a call fails changes no row; a failed run issues
\* no further call and changes no row, and stays failed until the script is
\* run again.
C10_FailFast ==
    [][\A p \in Procs :
          /\ \A k \in 1..Len(log'[p]) :
                ~log'[p][k].ok => (k = Len(log'[p]) /\ pc'[p] = "failed")
          /\ pc'[p] = "failed" =>
                /\ Len(log'[p]) >= 1
                /\ ~log'[p][Len(log'[p])].ok
                /\ store' = store
          /\ (pc[p] = "failed" /\ Local(p)' # Local(p)) =>
                /\ log'[p] = <<>>
                /\ idx'[p] = 1
                /\ entry'[p] = None
      ]_vars

\* C10's case: the run created the row of its first entry, and the update of
\* that row for its second entry failed: the row is as it was created.
C10_Witness ==
    /\ pc[1] = "failed"
    /\ idx[1] = 2
    /\ Len(store) = 1
    /\ store[1].created_by = 1
    /\ Len(log[1]) = 2
    /\ log[1][2].op = "update"
    /\ ~log[1][2].ok
    /\ log[1][2].page_id = 1
    /\ store[1].weight_kg # log[1][2].properties.weight_kg

=============================================================================
